---- MODULE Spec2Model ----
(***************************************************************************)
(* BatchJPEGDownloader (batchjpegdownloader.py): the URL list generator,   *)
(* the batch downloader and main(), as a state machine.                    *)
(*                                                                         *)
(* A Python str is a sequence of one-character strings, so that strip,     *)
(* fnmatch, rsplit and os.path.join are computed character by character.   *)
(***************************************************************************)
EXTENDS Integers, Sequences, FiniteSets, TLC

VARIABLES
    pc,            \* position of the running program
    error,         \* the exception that escaped to the caller, or "none"
    listFileName,  \* self.filename of the generator: a str, or None
    fileExists,    \* whether open(self.filename) succeeds
    listFile,      \* the lines of the list file, in file order
    pattern,       \* self.pattern
    hasValidators, \* whether "import validators" succeeds
    validURLs,     \* the strings validators.url accepted during __init__
    genPos,        \* the generator's position in the list file (next line)
    yielded,       \* the URLs __iter__ has yielded so far, in order
    warnings,      \* the lines __iter__ has printed a warning for, in order
    dirKind,       \* what is at download_directory: "absent", "dir", "file"
    files,         \* the regular files in the download directory: name -> content
    overwrite,     \* self.default_overwrite
    createDir,     \* self.default_create_directory
    downloadDir,   \* self.download_directory
    urls,          \* the argument of download(): [kind, items]
    idx,           \* how many elements the for loop of download() has taken
    url,           \* the loop variable of download()
    filename,      \* the local path computed for url
    mkdirFailed,   \* os.mkdir raised OSError in create_download_directory
    again,         \* create_download_directory has been called a second time
    log            \* what download() and download_file() did, in order

vars == <<pc, error, listFileName, fileExists, listFile, pattern, hasValidators,
          validURLs, genPos, yielded, warnings, dirKind, files, overwrite,
          createDir, downloadDir, urls, idx, url, filename, mkdirFailed, again,
          log>>

genVars == <<listFileName, fileExists, listFile, pattern, hasValidators>>
iterVars == <<genPos, yielded, warnings>>
fsVars == <<dirKind, files>>
cfgVars == <<overwrite, createDir, downloadDir, urls, again>>
loopVars == <<idx, url, filename>>

-----------------------------------------------------------------------------
(* Bounds of the model. *)

MaxLines == 3
MaxPatLen == 2
MaxUrls == 3
MaxPathLen == 4
MaxMainLines == 3

(* All sequences over S of length at most n. *)
BSeq(S, n) == UNION {[1..k -> S] : k \in 0..n}

-----------------------------------------------------------------------------
(* Strings. *)

(* The characters str.strip() removes, as far as a string of this module  *)
(* can hold them: space, tab, line feed, carriage return, form feed,       *)
(* vertical tab, the separators U+001C to U+001F, next line U+0085,        *)
(* no-break space U+00A0 and ogham space U+1680.  (The spaces from U+2000  *)
(* on cannot be written in a string here.)                                 *)
Whitespace ==
    {" ", "\t", "\n", "\r", "\f",
     "", "", "", "", "",
     "", " ", " "}

RECURSIVE LStrip(_)
LStrip(s) ==
    IF s # <<>> /\ Head(s) \in Whitespace THEN LStrip(Tail(s)) ELSE s

RECURSIVE RStrip(_)
RStrip(s) ==
    IF s # <<>> /\ s[Len(s)] \in Whitespace
    THEN RStrip(SubSeq(s, 1, Len(s) - 1))
    ELSE s

(* None, where a str is expected: the only value that is no str. *)
NoneObj == <<"None">>
IsStr(x) == x # NoneObj

(* str.strip(): leading and trailing whitespace removed. *)
Strip(s) == RStrip(LStrip(s))

(* fnmatch.fnmatch(name, pat) on a POSIX system (normcase is the identity): *)
(* the whole of name against pat, "*" any run of characters, "?" any one    *)
(* character, any other character itself.  Patterns are drawn without "[".  *)
RECURSIVE FnmatchFrom(_, _, _, _)
FnmatchFrom(name, i, pat, j) ==
    IF j > Len(pat) THEN i > Len(name)
    ELSE IF pat[j] = "*"
         THEN \E k \in i..(Len(name) + 1) : FnmatchFrom(name, k, pat, j + 1)
    ELSE IF pat[j] = "?"
         THEN i <= Len(name) /\ FnmatchFrom(name, i + 1, pat, j + 1)
    ELSE i <= Len(name) /\ name[i] = pat[j] /\ FnmatchFrom(name, i + 1, pat, j + 1)

Fnmatch(name, pat) == FnmatchFrom(name, 1, pat, 1)

-----------------------------------------------------------------------------
(* ListFileURLGenerator *)

(* The non-blank stripped lines of a file. *)
NonBlankLines(lines) ==
    {Strip(lines[i]) : i \in {k \in 1..Len(lines) : Strip(lines[k]) # <<>>}}

(* A variant that validates the lines as read, whitespace included. *)
HasInvalidLineUnstripped(lines, valid) ==
    \E i \in 1..Len(lines) : Len(lines[i]) > 0 /\ lines[i] \notin valid

(* The check of __init__: some non-blank line is not a valid URL. *)
HasInvalidLine(lines, valid) ==
    \E i \in 1..Len(lines) :
        Len(Strip(lines[i])) > 0 /\ Strip(lines[i]) \notin valid

(* ListFileURLGenerator.__init__(filename, pattern): next is where the     *)
(* caller continues when no exception escapes.  open(None) raises          *)
(* TypeError, which "except IOError" does not catch; open of a str that    *)
(* names no readable file raises IOError.  validators.url is a             *)
(* collaborator: the set of strings it accepts is chosen here.             *)
GenConstruct(next) ==
    /\ pc = "gen_new"
    /\ IF ~IsStr(listFileName)
       THEN /\ pc' = "raised"
            /\ error' = "TypeError"
            /\ validURLs' = validURLs
       ELSE IF ~fileExists
       THEN /\ pc' = "raised"
            /\ error' = "IOError"
            /\ validURLs' = validURLs
       ELSE IF ~hasValidators
       THEN /\ pc' = next
            /\ error' = error
            /\ validURLs' = validURLs
       ELSE \E valid \in SUBSET NonBlankLines(listFile) :
                /\ validURLs' = valid
                /\ IF HasInvalidLine(listFile, valid)
                   THEN pc' = "raised" /\ error' = "ValueError"
                   ELSE pc' = next /\ error' = error
    /\ UNCHANGED <<genVars, iterVars, fsVars, cfgVars, loopVars, mkdirFailed, log>>

(* A variant that prints no warning. *)
RECURSIVE ScanSkipsWarning(_, _, _, _)
ScanSkipsWarning(lines, pat, pos, warns) ==
    IF pos > Len(lines)
    THEN [pos |-> pos, found |-> FALSE, url |-> <<>>, warns |-> warns]
    ELSE LET url_no_whitespaces == Strip(lines[pos]) IN
         IF url_no_whitespaces # <<>>
         THEN IF Fnmatch(url_no_whitespaces, pat)
              THEN [pos |-> pos + 1, found |-> TRUE,
                    url |-> url_no_whitespaces, warns |-> warns]
              ELSE ScanSkipsWarning(lines, pat, pos + 1, warns)
         ELSE ScanSkipsWarning(lines, pat, pos + 1, warns)

(* One resumption of the generator __iter__ from line pos: it runs to the  *)
(* next yield or to the end of the file, warning for each non-blank line   *)
(* that does not match on the way.                                         *)
RECURSIVE Scan(_, _, _, _)
Scan(lines, pat, pos, warns) ==
    IF pos > Len(lines)
    THEN [pos |-> pos, found |-> FALSE, url |-> <<>>, warns |-> warns]
    ELSE LET url_no_whitespaces == Strip(lines[pos]) IN
         IF url_no_whitespaces # <<>>
         THEN IF Fnmatch(url_no_whitespaces, pat)
              THEN [pos |-> pos + 1, found |-> TRUE,
                    url |-> url_no_whitespaces, warns |-> warns]
              ELSE Scan(lines, pat, pos + 1, Append(warns, url_no_whitespaces))
         ELSE Scan(lines, pat, pos + 1, warns)

(* next() on the generator, as a list comprehension drives it. *)
GenNextYield ==
    /\ pc = "gen_ready"
    /\ LET r == Scan(listFile, pattern, genPos, warnings) IN
         /\ r.found
         /\ genPos' = r.pos
         /\ warnings' = r.warns
         /\ yielded' = Append(yielded, r.url)
    /\ UNCHANGED <<pc, error, genVars, validURLs, fsVars, cfgVars, loopVars,
                   mkdirFailed, log>>

GenNextStop ==
    /\ pc = "gen_ready"
    /\ LET r == Scan(listFile, pattern, genPos, warnings) IN
         /\ ~r.found
         /\ genPos' = r.pos
         /\ warnings' = r.warns
    /\ pc' = "gen_done"
    /\ UNCHANGED <<error, genVars, validURLs, yielded, fsVars, cfgVars, loopVars,
                   mkdirFailed, log>>

-----------------------------------------------------------------------------
(* Paths. *)

(* url.rsplit('/', 1)[-1]: what follows the last "/" of s, or s itself     *)
(* when it has none.                                                       *)
RECURSIVE RsplitLast(_)
RsplitLast(s) ==
    IF s = <<>> THEN <<>>
    ELSE IF s[Len(s)] = "/" THEN <<>>
    ELSE Append(RsplitLast(SubSeq(s, 1, Len(s) - 1)), s[Len(s)])

(* os.path.join(a, b) of posixpath. *)
Join(a, b) ==
    IF b # <<>> /\ Head(b) = "/" THEN b
    ELSE IF a = <<>> \/ a[Len(a)] = "/" THEN a \o b
    ELSE a \o <<"/">> \o b

-----------------------------------------------------------------------------
(* BatchDownloader *)

(* A variant that looks for a regular file at the path. *)
IsDirAsFile == dirKind = "file"

(* os.path.isdir(self.download_directory) *)
IsDir == dirKind = "dir"

(* os.path.isfile(path): a regular file of the download directory. *)
IsFile(path) == dirKind = "dir" /\ path \in DOMAIN files

(* The file system after path has been written with content. *)
WriteFile(path, content) ==
    [p \in DOMAIN files \cup {path} |-> IF p = path THEN content ELSE files[p]]

Event(ev, i, u) == [ev |-> ev, i |-> i, url |-> u]

(* A variant that creates the directory whatever the flag says. *)
MayCreateAlways == TRUE

(* if (self.default_create_directory) *)
MayCreate == createDir

(* BatchDownloader.__init__ up to the call of create_download_directory,   *)
(* and the first os.path.isdir of create_download_directory.               *)
CddCheck(next) ==
    /\ pc = "bd_new"
    /\ IF IsDir
       THEN pc' = next /\ error' = error
       ELSE IF MayCreate
       THEN pc' = "cdd_mkdir" /\ error' = error
       ELSE pc' = "raised" /\ error' = "ValueError"
    /\ UNCHANGED <<genVars, validURLs, iterVars, fsVars, cfgVars, loopVars,
                   mkdirFailed, log>>

(* os.mkdir(self.download_directory): it creates the directory, or raises  *)
(* OSError: always when something is at the path, possibly (no permission, *)
(* no parent) when nothing is.                                             *)
CddMkdirOk(next) ==
    /\ pc = "cdd_mkdir"
    /\ dirKind = "absent"
    /\ dirKind' = "dir"
    /\ pc' = next
    /\ UNCHANGED <<error, genVars, validURLs, iterVars, files, cfgVars, loopVars,
                   mkdirFailed, log>>

CddMkdirFails ==
    /\ pc = "cdd_mkdir"
    /\ mkdirFailed' = TRUE
    /\ pc' = "cdd_recheck"
    /\ UNCHANGED <<error, genVars, validURLs, iterVars, fsVars, cfgVars, loopVars,
                   log>>

(* A variant that re-raises every OSError of os.mkdir. *)
RecheckNever == FALSE

(* except OSError: if not os.path.isdir(...): raise *)
RecheckPasses == IsDir

CddRecheck(next) ==
    /\ pc = "cdd_recheck"
    /\ IF RecheckPasses
       THEN pc' = next /\ error' = error
       ELSE pc' = "raised" /\ error' = "OSError"
    /\ UNCHANGED <<genVars, validURLs, iterVars, fsVars, cfgVars, loopVars,
                   mkdirFailed, log>>

(* Another party creates or removes the directory while                    *)
(* create_download_directory is between its check and its re-check.        *)
EnvCreatesDir ==
    /\ pc \in {"cdd_mkdir", "cdd_recheck"}
    /\ dirKind = "absent"
    /\ dirKind' = "dir"
    /\ UNCHANGED <<pc, error, genVars, validURLs, iterVars, files, cfgVars,
                   loopVars, mkdirFailed, log>>

EnvRemovesDir ==
    /\ pc \in {"cdd_mkdir", "cdd_recheck"}
    /\ dirKind = "dir"
    /\ DOMAIN files = {}
    /\ dirKind' = "absent"
    /\ UNCHANGED <<pc, error, genVars, validURLs, iterVars, files, cfgVars,
                   loopVars, mkdirFailed, log>>

(* create_download_directory is called again, right after the first call  *)
(* or after a download() that returned: the next BatchDownloader on the    *)
(* same directory is constructed with the same flags (the setUp of each    *)
(* test constructs one).  The call then takes the steps of the first one,  *)
(* CddCheck, CddMkdirOk, CddMkdirFails and CddRecheck, and returns to      *)
(* CddReturn.                                                              *)
CddAgain ==
    /\ pc \in {"dl_start", "dl_done"}
    /\ ~again
    /\ again' = TRUE
    /\ pc' = "bd_new"
    /\ UNCHANGED <<error, genVars, validURLs, iterVars, fsVars, overwrite,
                   createDir, downloadDir, urls, loopVars, mkdirFailed, log>>

(* Where create_download_directory returns to: download() follows the     *)
(* first call, nothing follows the second.                                 *)
CddReturn == IF again THEN "ensured" ELSE "dl_start"

(* A variant for which everything can be iterated over. *)
IsIterableAlways(u) == TRUE

(* iter(urls) succeeds: None is not iterable, a list and a generator are. *)
IsIterable(u) == u.kind # "none"

(* download(urls): iter(urls) raises TypeError when urls is not iterable. *)
DlIterCheck ==
    /\ pc = "dl_start"
    /\ IF ~IsIterable(urls)
       THEN pc' = "raised" /\ error' = "TypeError"
       ELSE pc' = "dl_loop" /\ error' = error
    /\ UNCHANGED <<genVars, validURLs, iterVars, fsVars, cfgVars, loopVars,
                   mkdirFailed, log>>

(* A variant that takes the elements from the end of the list. *)
ElementReversed(items, i) == items[Len(items) - i]

(* The element the for loop of download() takes after i elements. *)
Element(items, i) == items[i + 1]

(* The local path of download(): the download directory joined with what  *)
(* follows the last "/" of the URL.                                        *)
LocalPath(dir, u) == Join(dir, RsplitLast(u))

(* The body of the for loop up to the call of download_file, for element u. *)
DlResolve(u) ==
    /\ idx' = idx + 1
    /\ url' = u
    /\ IF IsStr(u)
       THEN /\ filename' = LocalPath(downloadDir, u)
            /\ log' = Append(log, Event("resolve", idx + 1, u))
            /\ pc' = "dl_file"
            /\ error' = error
       ELSE /\ filename' = filename
            /\ log' = log
            /\ pc' = "raised"
            /\ error' = "TypeError"

(* for url in urls, urls a list: the next element, or the end of the loop *)
(* and print("Done.").                                                     *)
DlLoopList ==
    /\ pc = "dl_loop"
    /\ urls.kind = "list"
    /\ IF idx < Len(urls.items)
       THEN DlResolve(Element(urls.items, idx))
       ELSE /\ pc' = "dl_done"
            /\ log' = Append(log, Event("Done.", idx, <<>>))
            /\ UNCHANGED <<error, loopVars>>
    /\ UNCHANGED <<genVars, validURLs, iterVars, fsVars, cfgVars, mkdirFailed>>

(* for url in urls, urls a ListFileURLGenerator: the generator runs to its *)
(* next yield or to the end of the file.                                   *)
DlLoopGen ==
    /\ pc = "dl_loop"
    /\ urls.kind = "gen"
    /\ LET r == Scan(listFile, pattern, genPos, warnings) IN
         /\ genPos' = r.pos
         /\ warnings' = r.warns
         /\ IF r.found
            THEN /\ yielded' = Append(yielded, r.url)
                 /\ DlResolve(r.url)
            ELSE /\ yielded' = yielded
                 /\ pc' = "dl_done"
                 /\ log' = Append(log, Event("Done.", idx, <<>>))
                 /\ UNCHANGED <<error, loopVars>>
    /\ UNCHANGED <<genVars, validURLs, fsVars, cfgVars, mkdirFailed>>

(* Variants that never skip, and that skip every existing file. *)
SkipsNever(path) == FALSE

SkipsExisting(path) == IsFile(path)

(* download_file(url, filename): the file exists and may not be           *)
(* overwritten.                                                            *)
Skips(path) == IsFile(path) /\ ~overwrite

DownloadFileSkip ==
    /\ pc = "dl_file"
    /\ Skips(filename)
    /\ log' = Append(log, Event("skipped", idx, url))
    /\ pc' = "dl_loop"
    /\ UNCHANGED <<error, genVars, validURLs, iterVars, fsVars, cfgVars, loopVars,
                   mkdirFailed>>

(* urlretrieve can write a regular file at path: not at a path that ends  *)
(* with "/" (the directory itself), and not without the directory.        *)
Writable(path) == dirKind = "dir" /\ path # <<>> /\ path[Len(path)] # "/"

(* urllib.request hands a URL to a handler by its type, the characters    *)
(* before its first ":" when there is at least one and none of them is     *)
(* "/" (_splittype); a URL without a type is refused with ValueError       *)
(* before anything is opened.                                              *)
HasUrlType(u) ==
    \E k \in 2..Len(u) :
        /\ u[k] = ":"
        /\ \A m \in 1..(k - 1) : u[m] \notin {"/", ":"}

(* The exceptions of urlretrieve that are no IOError, each name with its   *)
(* subclasses: ValueError for a URL urllib refuses or a Content-Length     *)
(* that is no number, OverflowError for a port (of the URL or of a         *)
(* redirect) that fits no C long, TypeError for a host (of a redirect to   *)
(* ftp) with a null byte, http.client.HTTPException for what else the      *)
(* server sends.                                                           *)
OtherErrors == {"ValueError", "OverflowError", "TypeError", "HTTPException"}

(* urlretrieve(url, filename) succeeds and print("done."). *)
DownloadFileOk ==
    /\ pc = "dl_file"
    /\ ~Skips(filename)
    /\ HasUrlType(url)
    /\ Writable(filename)
    /\ files' = WriteFile(filename, url)
    /\ log' = Append(log, Event("written", idx, url))
    /\ pc' = "dl_loop"
    /\ UNCHANGED <<error, genVars, validURLs, iterVars, dirKind, cfgVars, loopVars,
                   mkdirFailed>>

(* A variant that goes on with the loop after a failed fetch. *)
AfterFailureContinue == "dl_loop"

(* What follows a failed fetch: print("failed.") and raise. *)
AfterFailure == "raised"

(* urlretrieve raises IOError, before it opened the local file or after   *)
(* (a partial file is left).                                               *)
DownloadFileFails ==
    /\ pc = "dl_file"
    /\ ~Skips(filename)
    /\ HasUrlType(url)
    /\ \/ files' = files
       \/ Writable(filename) /\ files' = WriteFile(filename, <<"partial">>)
    /\ log' = Append(log, Event("failed", idx, url))
    /\ pc' = AfterFailure
    /\ error' = IF AfterFailure = "raised" THEN "IOError" ELSE error
    /\ UNCHANGED <<genVars, validURLs, iterVars, dirKind, cfgVars, loopVars,
                   mkdirFailed>>

(* urlretrieve raises an exception that is no IOError: "except IOError"   *)
(* does not catch it, nothing is printed after "Downloading ...", and it   *)
(* escapes download_file and download().  For a URL without a type it is   *)
(* the ValueError of urllib, and the only outcome; otherwise urllib or the *)
(* server decides which exception and when: before the local file is       *)
(* opened or after (urlretrieve opens it with "wb" before it reads the     *)
(* Content-Length and the data, so the file is left created or truncated). *)
DownloadFileRaises ==
    /\ pc = "dl_file"
    /\ ~Skips(filename)
    /\ IF ~HasUrlType(url)
       THEN error' = "ValueError" /\ files' = files
       ELSE \E e \in OtherErrors :
                /\ error' = e
                /\ \/ files' = files
                   \/ /\ Writable(filename)
                      /\ files' = WriteFile(filename, <<"partial">>)
    /\ pc' = "raised"
    /\ UNCHANGED <<genVars, validURLs, iterVars, dirKind, cfgVars, loopVars,
                   mkdirFailed, log>>

-----------------------------------------------------------------------------
(* Inputs. *)

NoUrls == [kind |-> "none", items |-> <<>>]
GenUrls == [kind |-> "gen", items |-> <<>>]
ListUrls(items) == [kind |-> "list", items |-> items]

(* The name of the list file, when it is a str. *)
ListName == <<"l">>

(* A line as the file iterator gives it when it is the last line of a     *)
(* file that does not end with a line terminator.                          *)
Unterminated(line) == SubSeq(line, 1, Len(line) - 1)

(* The files of at most n lines drawn from lines: each line ends with its *)
(* "\n", except that the last line may lack it when something is before    *)
(* it on the line.                                                         *)
Files(lines, n) ==
    LET whole == BSeq(lines, n) IN
    whole \cup
        {[f EXCEPT ![Len(f)] = Unterminated(f[Len(f)])] :
            f \in {g \in whole : g # <<>> /\ Len(g[Len(g)]) > 1}}

(* Lines of a list file for the generator on its own, as read: blank      *)
(* lines, lines with spaces and tabs before, after and inside.             *)
FilterLines ==
    { <<"\n">>, <<" ", "\n">>, <<"a", "\n">>, <<"\t", "b", "\n">>,
      <<"b", "a", " ", "\n">>, <<" ", "a", " ", "b", "\t", "\n">> }

PatAlphabet == {"*", "?", "a", "b"}

(* URLs handed to download(): two with the same last segment, one with    *)
(* another, one that ends with "/", one without a type, and None.          *)
Http == <<"h", "t", "t", "p", ":", "/", "/">>
UrlHX == Http \o <<"h", "/", "x">>
UrlGX == Http \o <<"g", "/", "x">>
UrlHY == Http \o <<"h", "/", "y">>
UrlH == Http \o <<"h", "/">>
UrlX == <<"x">>
DlUrls == {UrlHX, UrlGX, UrlHY, UrlH, UrlX, NoneObj}

(* Files that may already be in the download directory "d". *)
OldContent == <<"old">>
OldFiles == {<<"d", "/", "x">>, <<"d", "/", "y">>}

(* Lines of the list file of main(), whose pattern is "*.jpg", as read:   *)
(* a blank line, two URLs with the same last segment, one of them with     *)
(* whitespace around it, a URL that is no "*.jpg" and a line without a     *)
(* type.                                                                   *)
JpgPattern == <<"*", ".", "j", "p", "g">>
MainLines ==
    { <<"\n">>,
      Http \o <<"h", "/", "x", ".", "j", "p", "g", "\n">>,
      <<"\t", " ">> \o Http \o <<"g", "/", "x", ".", "j", "p", "g", " ", "\n">>,
      Http \o <<"h", "/", "y", ".", "p", "n", "g", "\n">>,
      <<"x", ".", "j", "p", "g", "\n">> }
MainOldFiles == {<<"d", "/", "x", ".", "j", "p", "g">>}

PathAlphabet == {"/", "a", "b"}
PathDirs == {<<"d">>, <<"d", "/">>, <<"/", "o">>}

InitIdle ==
    /\ error = "none"
    /\ validURLs = {}
    /\ genPos = 1
    /\ yielded = <<>>
    /\ warnings = <<>>
    /\ idx = 0
    /\ url = <<>>
    /\ filename = <<>>
    /\ mkdirFailed = FALSE
    /\ again = FALSE
    /\ log = <<>>

InitNoGenerator ==
    /\ listFileName = NoneObj
    /\ fileExists = FALSE
    /\ listFile = <<>>
    /\ pattern = <<>>
    /\ hasValidators = FALSE

InitNoDownloader ==
    /\ dirKind = "absent"
    /\ files = <<>>
    /\ overwrite = FALSE
    /\ createDir = FALSE
    /\ downloadDir = <<"d">>
    /\ urls = NoUrls

(* The download directory before the run: nothing, a regular file, or a   *)
(* directory with some of the files old.                                   *)
InitFileSystem(old) ==
    /\ dirKind \in {"absent", "file", "dir"}
    /\ files \in {[p \in S |-> OldContent] : S \in SUBSET old}
    /\ dirKind # "dir" => DOMAIN files = {}

-----------------------------------------------------------------------------
(* The list file on its own: ListFileURLGenerator(file, pattern), then     *)
(* [_ for _ in url_iterator].                                              *)

InitFilter ==
    /\ pc = "gen_new"
    /\ InitIdle
    /\ InitNoDownloader
    /\ listFileName \in {ListName, NoneObj}
    /\ fileExists \in BOOLEAN
    /\ listFileName = NoneObj => fileExists = FALSE
    /\ listFile \in Files(FilterLines, MaxLines)
    /\ fileExists = FALSE => listFile = <<>>
    /\ pattern \in BSeq(PatAlphabet, MaxPatLen)
    /\ hasValidators = FALSE

FilterConstruct == GenConstruct("gen_ready")

NextFilter == FilterConstruct \/ GenNextYield \/ GenNextStop

SpecFilter == InitFilter /\ [][NextFilter]_vars

-----------------------------------------------------------------------------
(* The downloader on its own: BatchDownloader("d", overwrite, create),     *)
(* then download(urls) with a list or with None.                           *)

InitDownload ==
    /\ pc = "bd_new"
    /\ InitIdle
    /\ InitNoGenerator
    /\ InitFileSystem(OldFiles)
    /\ overwrite \in BOOLEAN
    /\ createDir \in BOOLEAN
    /\ downloadDir = <<"d">>
    /\ urls \in {ListUrls(items) : items \in BSeq(DlUrls, MaxUrls)} \cup {NoUrls}

CreateDownloadDirectory(next) ==
    \/ CddCheck(next)
    \/ CddMkdirOk(next)
    \/ CddMkdirFails
    \/ CddRecheck(next)

DownloadFile ==
    \/ DownloadFileSkip
    \/ DownloadFileOk
    \/ DownloadFileFails
    \/ DownloadFileRaises

Environment == EnvCreatesDir \/ EnvRemovesDir

NextDownload ==
    \/ CreateDownloadDirectory(CddReturn)
    \/ Environment
    \/ CddAgain
    \/ DlIterCheck
    \/ DlLoopList
    \/ DownloadFile

Spec == InitDownload /\ [][NextDownload]_vars

-----------------------------------------------------------------------------
(* main(): ListFileURLGenerator(FILE, "*.jpg"), BatchDownloader(out,       *)
(* force, create), downloader.download(url_iterator).                      *)

InitMain ==
    /\ pc = "gen_new"
    /\ InitIdle
    /\ listFileName = ListName
    /\ fileExists \in BOOLEAN
    /\ listFile \in Files(MainLines, MaxMainLines)
    /\ fileExists = FALSE => listFile = <<>>
    /\ pattern = JpgPattern
    /\ hasValidators \in BOOLEAN
    /\ InitFileSystem(MainOldFiles)
    /\ overwrite \in BOOLEAN
    /\ createDir \in BOOLEAN
    /\ downloadDir = <<"d">>
    /\ urls = GenUrls

MainConstructGenerator == GenConstruct("bd_new")

NextMain ==
    \/ MainConstructGenerator
    \/ CreateDownloadDirectory("dl_start")
    \/ Environment
    \/ DlIterCheck
    \/ DlLoopGen
    \/ DownloadFile

SpecMain == InitMain /\ [][NextMain]_vars

-----------------------------------------------------------------------------
(* The local path on its own: the computation of download() for one URL   *)
(* and one download directory.                                             *)

InitPath ==
    /\ pc = "dl_loop"
    /\ InitIdle
    /\ InitNoGenerator
    /\ dirKind = "dir"
    /\ files = <<>>
    /\ overwrite = FALSE
    /\ createDir = FALSE
    /\ downloadDir \in PathDirs
    /\ urls \in {ListUrls(<<u>>) : u \in BSeq(PathAlphabet, MaxPathLen)}

NextPath == DlLoopList

SpecPath == InitPath /\ [][NextPath]_vars

-----------------------------------------------------------------------------
(* Properties of the list file generator. *)

(* s without its leading and trailing whitespace: from its first to its   *)
(* last character that is no whitespace.                                   *)
Trimmed(s) ==
    LET solid == {k \in 1..Len(s) : s[k] \notin Whitespace} IN
    IF solid = {} THEN <<>>
    ELSE SubSeq(s, CHOOSE k \in solid : \A m \in solid : k <= m,
                   CHOOSE k \in solid : \A m \in solid : k >= m)

(* The whole of s matches the shell-style wildcard p. *)
RECURSIVE GlobMatches(_, _)
GlobMatches(s, p) ==
    IF p = <<>> THEN s = <<>>
    ELSE IF Head(p) = "*"
         THEN \E k \in 0..Len(s) : GlobMatches(SubSeq(s, k + 1, Len(s)), Tail(p))
    ELSE /\ s # <<>>
         /\ Head(p) = "?" \/ Head(p) = Head(s)
         /\ GlobMatches(Tail(s), Tail(p))

TrimmedLines == [i \in 1..Len(listFile) |-> Trimmed(listFile[i])]
Accepted(s) == s # <<>> /\ GlobMatches(s, pattern)
Rejected(s) == s # <<>> /\ ~GlobMatches(s, pattern)

(* C1: once the iteration over the list file has ended, the URLs yielded  *)
(* are exactly the trimmed non-blank lines that match the pattern as a     *)
(* whole, in file order and with their repetitions, and the warnings are   *)
(* exactly the trimmed non-blank lines that do not match, one each, in     *)
(* file order; a blank line is in neither.  Before the end, what has been  *)
(* yielded and warned is what the lines read so far give.                  *)
C1_YieldsMatchingLinesInOrder ==
    pc \in {"gen_ready", "gen_done"} =>
        LET read == SubSeq(TrimmedLines, 1, genPos - 1) IN
        /\ yielded = SelectSeq(read, Accepted)
        /\ warnings = SelectSeq(read, Rejected)
        /\ pc = "gen_done" => genPos = Len(listFile) + 1

(* A file with a blank line, a line that starts with a tab and is yielded *)
(* without it, and a line that is warned about has been read to its end.   *)
C1_Witness ==
    /\ pc = "gen_done"
    /\ Len(listFile) = 3
    /\ \E i \in 1..3 : Trimmed(listFile[i]) = <<>>
    /\ \E i \in 1..3 : \E k \in 1..Len(yielded) :
           /\ Head(listFile[i]) = "\t"
           /\ yielded[k] = SubSeq(listFile[i], 2, Len(listFile[i]) - 1)
    /\ warnings # <<>>

-----------------------------------------------------------------------------
(* Properties of the batch downloader. *)

(* The sequence download() iterates over. *)
Source == IF urls.kind = "gen" THEN yielded ELSE urls.items

EventsOf(ev) == {k \in 1..Len(log) : log[k].ev = ev}

(* C2, as claimed: a fetch that fails does not abort the batch, every     *)
(* later URL of the list is still attempted.  So download() never ends on  *)
(* the IOError of a fetch with elements of the list left.                  *)
C2_Original_BatchContinuesAfterFailure ==
    (pc = "raised" /\ error = "IOError") => idx = Len(Source)

(* C2, amended: a fetch that fails is reported for its item ("failed.")   *)
(* and aborts the batch: the failure is the last thing download() does,    *)
(* the loop takes no later URL, and nothing is resolved, fetched or        *)
(* skipped after it.                                                       *)
C2_FailureAbortsBatch ==
    \A k \in EventsOf("failed") :
        /\ k = Len(log)
        /\ idx = log[k].i
        /\ url = log[k].url
        /\ pc \notin {"dl_loop", "dl_file", "dl_done"}

(* The second of three URLs has failed and the third was never taken. *)
C2_Witness ==
    /\ urls.kind = "list"
    /\ Len(urls.items) = 3
    /\ idx = 2
    /\ log # <<>>
    /\ log[Len(log)].ev = "failed"
    /\ pc = "raised"

(* C3: a download() in which a fetch has failed has ended by raising      *)
(* IOError to its caller, at whatever position of the list the failing URL *)
(* is; it returns normally only when no fetch failed.                      *)
C3_FailedFetchRaisesIOError ==
    /\ EventsOf("failed") # {} => (pc = "raised" /\ error = "IOError")
    /\ pc = "dl_done" => EventsOf("failed") = {}

(* download() has raised IOError for the last of three URLs, after the    *)
(* two before it were written.                                             *)
C3_Witness ==
    /\ pc = "raised"
    /\ error = "IOError"
    /\ urls.kind = "list"
    /\ Len(urls.items) = 3
    /\ idx = 3
    /\ Cardinality(EventsOf("written")) = 2
    /\ log[Len(log)].ev = "failed"

(* C4: download_file with overwrite false on a path where a file exists   *)
(* fetches nothing: the files and their contents stay as they are, the     *)
(* item is reported as skipped and the loop goes on.                       *)
C4_ExistingFileSkippedUnmodified ==
    [][(pc = "dl_file" /\ ~overwrite /\ dirKind = "dir" /\ filename \in DOMAIN files)
        => /\ files' = files
           /\ dirKind' = dirKind
           /\ log' = Append(log, Event("skipped", idx, url))
           /\ pc' = "dl_loop"
           /\ error' = error]_vars

(* A URL was skipped for a file that was there before the run, and the    *)
(* file still has its old content.                                         *)
C4_Witness ==
    /\ ~overwrite
    /\ log # <<>>
    /\ log[Len(log)].ev = "skipped"
    /\ filename \in DOMAIN files
    /\ files[filename] = OldContent

(* C5: when the download directory does not exist and may not be created, *)
(* the construction of the downloader has raised ValueError: nothing was   *)
(* created at the path, no URL was resolved or fetched and no file was     *)
(* written.                                                                *)
C5_MissingDirectoryIsFatal ==
    (~createDir /\ dirKind # "dir" /\ pc # "bd_new") =>
        /\ pc = "raised"
        /\ error = "ValueError"
        /\ log = <<>>
        /\ idx = 0
        /\ DOMAIN files = {}

(* The run has failed with ValueError on an absent directory, with URLs   *)
(* to download.                                                            *)
C5_Witness ==
    /\ pc = "raised"
    /\ error = "ValueError"
    /\ dirKind = "absent"
    /\ ~createDir
    /\ urls.kind = "list"
    /\ Len(urls.items) > 0

(* C6: with the validators package, once the generator has been          *)
(* constructed or has failed to be: if some non-blank line of the file is  *)
(* no valid URL, wherever it is, the construction raised ValueError and    *)
(* main() ended there, with no URL yielded, nothing resolved or fetched    *)
(* and nothing done to the download directory; if every non-blank line is  *)
(* valid, blank lines or not, the construction did not raise (a ValueError *)
(* can then only be the missing download directory's, or that of a fetch   *)
(* download() had resolved a URL for).                                     *)
C6_InvalidLineFailsConstruction ==
    (hasValidators /\ fileExists /\ pc # "gen_new") =>
        LET invalid == \E i \in 1..Len(listFile) :
                           /\ Trimmed(listFile[i]) # <<>>
                           /\ Trimmed(listFile[i]) \notin validURLs
        IN  /\ invalid =>
                /\ pc = "raised"
                /\ error = "ValueError"
                /\ yielded = <<>>
                /\ warnings = <<>>
                /\ log = <<>>
                /\ idx = 0
                /\ ~mkdirFailed
                /\ \A p \in DOMAIN files : files[p] = OldContent
            /\ (~invalid /\ error = "ValueError") =>
                   \/ ~createDir /\ dirKind # "dir" /\ log = <<>>
                   \/ log # <<>> /\ log[Len(log)].ev = "resolve"

(* The construction has raised ValueError for a file whose first line is  *)
(* a valid URL that matches "*.jpg", whose second line is blank and whose  *)
(* third line is invalid, with the download directory there.               *)
C6_Witness ==
    /\ hasValidators
    /\ pc = "raised"
    /\ error = "ValueError"
    /\ dirKind = "dir"
    /\ Len(listFile) = 3
    /\ Trimmed(listFile[1]) \in validURLs
    /\ GlobMatches(Trimmed(listFile[1]), pattern)
    /\ Trimmed(listFile[2]) = <<>>
    /\ Trimmed(listFile[3]) # <<>>
    /\ Trimmed(listFile[3]) \notin validURLs

(* The events of element j of the list. *)
Outcome(j, ev) == \E k \in 1..Len(log) : log[k].i = j /\ log[k].ev = ev

(* What follows the last "/" of u. *)
TrailingSegment(u) ==
    LET slashes == {k \in 1..Len(u) : u[k] = "/"} IN
    IF slashes = {} THEN u
    ELSE SubSeq(u, (CHOOSE k \in slashes : \A m \in slashes : k >= m) + 1, Len(u))

(* C7: when download_file has returned for element j of the list and an   *)
(* earlier element i with the same trailing segment was fetched and        *)
(* written, then with overwrite true element j was fetched too and the     *)
(* file holds the content of URL j, and with overwrite false element j     *)
(* was skipped and the file holds the content of URL i.                    *)
C7_CollisionFollowsOverwritePolicy ==
    (pc = "dl_loop" /\ urls.kind = "list" /\ idx >= 2) =>
        \A i \in 1..(idx - 1) :
            (/\ IsStr(urls.items[i])
             /\ TrailingSegment(urls.items[i]) = TrailingSegment(urls.items[idx])
             /\ Outcome(i, "written"))
            => /\ filename \in DOMAIN files
               /\ IF overwrite
                  THEN Outcome(idx, "written") /\ files[filename] = urls.items[idx]
                  ELSE Outcome(idx, "skipped") /\ files[filename] = urls.items[i]

(* Two different URLs with the same trailing segment have been processed, *)
(* the first written and the second written over it.                       *)
C7_Witness ==
    /\ pc = "dl_loop"
    /\ urls.kind = "list"
    /\ idx = 2
    /\ urls.items[1] = UrlHX
    /\ urls.items[2] = UrlGX
    /\ Outcome(1, "written")
    /\ Outcome(2, "written")
    /\ files[filename] = UrlGX

(* C8: download() works on one URL at a time, in the order of the list:   *)
(* what it has done so far is, for elements 1, 2, ... in turn, the         *)
(* resolution of that element followed by its outcome (written, skipped    *)
(* or failed), nothing of a later element before the outcome of an earlier *)
(* one, and at most the last element taken without its outcome: the one    *)
(* being fetched, or the one whose fetch ended download() with an          *)
(* exception that is no IOError, whatever its class.                       *)
C8_OneUrlAtATimeInListOrder ==
    /\ \A k \in 1..Len(log) :
        log[k].ev # "Done." =>
            /\ log[k].i = (k + 1) \div 2
            /\ log[k].i <= Len(Source)
            /\ log[k].url = Source[log[k].i]
            /\ (k % 2 = 1) => log[k].ev = "resolve"
            /\ (k % 2 = 0) => log[k].ev \in {"written", "skipped", "failed"}
    /\ \A k \in EventsOf("Done.") : k = Len(log) /\ k = 2 * Len(Source) + 1
    /\ pc = "dl_file" => (Len(log) % 2 = 1 /\ log[Len(log)].ev = "resolve")
    /\ (Len(log) % 2 = 1 /\ log[Len(log)].ev = "resolve") =>
           /\ log[Len(log)].i = idx
           /\ \/ pc = "dl_file"
              \/ pc = "raised" /\ error \notin {"none", "IOError"}

(* Three different URLs have all been processed and download() is done. *)
C8_Witness ==
    /\ pc = "dl_done"
    /\ urls.kind = "list"
    /\ Len(urls.items) = 3
    /\ Cardinality({urls.items[i] : i \in 1..3}) = 3
    /\ Len(log) = 7

(* C10: with default_create_directory true, once create_download_directory *)
(* has returned or raised: it raised OSError exactly when the directory    *)
(* did not exist after the creation attempt.  So a failed os.mkdir with    *)
(* the directory there (another party created it) is a success.            *)
C10_FailsOnlyIfDirectoryMissing ==
    (createDir /\ pc \notin {"bd_new", "cdd_mkdir", "cdd_recheck"})
    => /\ error = "OSError" <=> dirKind # "dir"
       /\ error = "OSError" => (pc = "raised" /\ mkdirFailed)

(* os.mkdir failed on a directory that was absent at the check, and the   *)
(* construction went on to download().                                     *)
C10_Witness ==
    /\ createDir
    /\ mkdirFailed
    /\ dirKind = "dir"
    /\ pc = "dl_start"

-----------------------------------------------------------------------------
(* Properties of the local path. *)

(* The characters of u that are no "/". *)
SegmentChars(u) == {k \in 1..Len(u) : u[k] # "/"}

(* The final non-empty "/"-delimited segment of u, which has one: the run *)
(* of characters other than "/" that ends at the last such character.      *)
LastNonEmptySegment(u) ==
    LET last == CHOOSE k \in SegmentChars(u) : \A m \in SegmentChars(u) : k >= m
        first == CHOOSE k \in 1..last :
                    /\ \A m \in k..last : u[m] # "/"
                    /\ k = 1 \/ u[k - 1] = "/"
    IN  SubSeq(u, first, last)

(* C9, as claimed: for a URL with a non-empty segment, a URL that ends    *)
(* with "/" included, the local path download() computes is the download   *)
(* directory joined with the final non-empty segment of the URL.           *)
C9_Original_PathIsLastNonEmptySegment ==
    (pc = "dl_file" /\ SegmentChars(url) # {}) =>
        filename = Join(downloadDir, LastNonEmptySegment(url))

-----------------------------------------------------------------------------
(* Properties of a repeated call. *)

(* C11: with default_create_directory true, a call of                     *)
(* create_download_directory that follows a call that returned, with no    *)
(* other party between the two calls, does not fail: every step of it      *)
(* finds the directory there and leaves the directory, the files in it     *)
(* and what os.mkdir did as they were, no exception is raised, and its     *)
(* one step after the call is the check that returns.                      *)
C11_SecondEnsureIsNoOp ==
    [][(createDir /\ again') =>
        /\ dirKind = "dir"
        /\ dirKind' = dirKind
        /\ files' = files
        /\ mkdirFailed' = mkdirFailed
        /\ error' = "none"
        /\ pc' = IF again THEN "ensured" ELSE "bd_new"
        /\ again => pc = "bd_new"]_vars

(* The second call has returned, after a download() that wrote a file    *)
(* into the directory.                                                     *)
C11_Witness ==
    /\ pc = "ensured"
    /\ again
    /\ createDir
    /\ error = "none"
    /\ dirKind = "dir"
    /\ \E e \in EventsOf("written") : log[e].url = UrlHX
    /\ <<"d", "/", "x">> \in DOMAIN files

(* C12: download(None) fails fast: it never enters its loop, so it       *)
(* resolves no path, fetches nothing and writes no file, and once the      *)
(* downloader was constructed the only exception of the run is the         *)
(* TypeError of iter(urls).                                                *)
C12_NotIterableFailsFast ==
    urls.kind = "none" =>
        /\ pc \notin {"dl_loop", "dl_file", "dl_done"}
        /\ log = <<>>
        /\ idx = 0
        /\ url = <<>>
        /\ filename = <<>>
        /\ \A p \in DOMAIN files : files[p] = OldContent
        /\ (pc = "raised" /\ dirKind = "dir") => error = "TypeError"
        /\ error = "TypeError" => pc = "raised"

(* download(None) has raised TypeError in a directory with old files. *)
C12_Witness ==
    /\ urls.kind = "none"
    /\ pc = "raised"
    /\ error = "TypeError"
    /\ DOMAIN files = OldFiles

====
